---------------------------- MODULE Spec2Model ----------------------------
(***************************************************************************)
(* Model of the camera vital-sign scanner of HS - Health Smart:            *)
(*   - src/utils/healthAnalyzer.ts : the continuous estimator              *)
(*     (Buffer, blink detection, heart rate, stress smoothing);            *)
(*   - src/components/VitalScanner.tsx : the scan orchestrator (React      *)
(*     state, passive effects, camera acquisition, frame loop, demo loop); *)
(*   - src/pages/HospitalPatientDashboard.tsx : the parent page that       *)
(*     mounts the scanner, polls the patient record and saves the report.  *)
(*                                                                         *)
(* Numbers that are fractions in the source are kept exact: a rational is  *)
(* a pair <<n, d>> with d > 0, progress is counted in tenths of a percent, *)
(* the respiratory sine term in thousandths of a bpm, the eye aspect ratio *)
(* in hundredths.                                                          *)
(***************************************************************************)
EXTENDS Integers, Sequences, FiniteSets, TLC

-----------------------------------------------------------------------------
(* Bounds of the model *)

\* estimateVitals calls explored by the heart-rate specification
MaxHRCalls == 3
\* estimateVitals calls explored by the blink specification
MaxBlinkCalls == 5
\* estimateVitals calls explored by the stress specification, after the calls
\* that fill the stress buffer up to one below its capacity
MaxStressCalls == 3
\* estimateVitals calls explored by the specification of the whole snapshot
MaxVitalsCalls == 2

\* Buffer under test: capacities 0 .. MaxCapacity, at most MaxPushes pushes
MaxCapacity == 3
MaxPushes == 4
\* bits of the significand of a number: 53 in the source (IEEE 754 binary64),
\* scaled down here; rounding is to nearest, ties to even, as in the source
MantissaBits == 4

\* times the scanner is opened on one page
MaxSessions == 2
\* inter-beat intervals the batch estimator is given
MaxIntervals == 3
\* a normalised landmark coordinate is k / LandmarkGrid, k in 0 .. LandmarkGrid
LandmarkGrid == 4
\* runs of the camera effect (startCamera closures) per mounted scanner
MaxRuns == 3
\* cameras that enumerateDevices may report
MaxCameras == 2
\* onComplete timers the Finish Scan effect may schedule
MaxDeliveries == 2
\* the percentage at which the scan completes: 100 in the source
\* (if (prev >= 100) ... return 100), scaled down here so that a scan takes a
\* handful of frames; a whole percentage, so that both steps (0.2 and 0.5)
\* divide it as they divide 100
MaxPercent == 1

\* reports and messages written to the patient record
MaxWrites == 3

-----------------------------------------------------------------------------
(* Program constants *)

\* the progress value at which the scan completes, in tenths of a percent
ProgressFull == 10 * MaxPercent

\* return prev + 0.2 (camera frame), in tenths of a percent
CameraStep == 2
\* const step = 0.5 (demo tick), in tenths of a percent
DemoStep == 5

\* new Buffer(30)
HrBufferSize == 30
\* new Buffer(50)
StressBufferSize == 50
\* const isEyeOpen = ear > 0.25   (hundredths)
EarThreshold == 25
\* if (timeMs - healthAnalyzer.lastBlinkTime > 200)
BlinkDebounceMs == 200
\* const baseHR = 75
BaseHR == 75
\* heartRate = Math.max(55, Math.min(100, heartRate))
MinHR == 55
MaxHR == 100
\* estimateVitals(landmarks, timeMs, greenSignal = 0, age = 30)
DefaultAge == 30
\* Math.max(90, Math.min(180, estSys + noise))
MinSystolic == 90
MaxSystolic == 180
\* Math.max(60, Math.min(120, estDia + noise))
MinDiastolic == 60
MaxDiastolic == 120

-----------------------------------------------------------------------------
(* Input domains *)

\* mean green intensity of the forehead patch, 0..255 (0: failed pixel read)
GreenValues == {0, 1, 128, 255}
\* Math.sin(now / 3000) * 3, in thousandths of a bpm: a value in [-3, 3]
RespValues == {-3000, 0, 3000}
\* eye aspect ratio in hundredths: closed, exactly at the threshold, open
EarValues == {10, 25, 40}
\* milliseconds between two frames
Deltas == {50, 150, 250}
\* Date.now() of the first frame
StartTimes == {0, 1000}
\* heartRate values of the simulation loop: floor(70 + sin * 10 + random * 5)
DemoHeartRates == {72}
\* Math.sin(now / 5000), in thousandths: a value in [-1, 1]
Sin5Values == {-1000, 1000}
\* noise = (Math.random() - 0.5) * 2, in twentieths: a value in [-1, 1)
NoiseValues == {-20, 19}
\* ages of patients
Ages == {0, 120}
\* ages a caller may pass
AnyAges == Ages \cup {-500, 500}
\* the eye landmarks as <<v1 + v2, h>>, in thousandths of the frame: an open
\* eye, and degenerate eyes of zero width (all six landmarks at one point;
\* the two corners at one point)
EyeShapes == { <<40, 50>>, <<0, 0>>, <<20, 0>> }
\* the frames the scanner specification feeds to the estimator: eye open,
\* mid-range green, 50 ms apart
ScanFrames == { [ear |-> 40, green |-> 128, resp |-> 0, dt |-> 50] }
\* the frames of the specification of successive sessions: also an eye closed
SessionFrames == ScanFrames \cup { [ear |-> 10, green |-> 255, resp |-> 0, dt |-> 250] }

-----------------------------------------------------------------------------
(* Arithmetic helpers *)

Abs(x) == IF x < 0 THEN -x ELSE x
Min2(a, b) == IF a < b THEN a ELSE b
Max2(a, b) == IF a > b THEN a ELSE b

RECURSIVE SeqSum(_)
SeqSum(s) == IF s = <<>> THEN 0 ELSE Head(s) + SeqSum(Tail(s))

\* Math.floor(n / d) for d > 0
FloorDiv(n, d) == IF n >= 0 THEN n \div d ELSE -((-n + d - 1) \div d)

-----------------------------------------------------------------------------
(* healthAnalyzer.ts: extractGreenSignal *)

\* const patchedW = 20; const patchedH = 20
PatchedW == 20
PatchedH == 20

\* Math.max(0, c - patched / 2) for c = (k / LandmarkGrid) * extent, times
\* LandmarkGrid: the patch origin along one axis
PatchStart(k, extent, patched) ==
  Max2(0, 2 * k * extent - patched * LandmarkGrid) \div 2

\* extractGreenSignal(image, landmarks).  image: its kind, whether
\* getContext('2d') gives a context, whether getImageData throws (tainted),
\* its width and height.  lm: whether landmarks[151] exists, and its x and y.
\* The outcome: "zero" (return 0), "mean" (greenSum / count) or "raise";
\* landmarks[151].x of a missing landmark is read outside the try.
ExtractGreenSignal(image, lm) ==
  LET none == [outcome |-> "zero", startX |-> 0, startY |-> 0]
  IN  IF image.kind # "canvas" THEN none
      ELSE IF ~image.ctx THEN none
      ELSE IF ~lm.present THEN [none EXCEPT !.outcome = "raise"]
      ELSE [ outcome |-> IF image.tainted THEN "zero" ELSE "mean",
             startX  |-> PatchStart(lm.x, image.width, PatchedW),
             startY  |-> PatchStart(lm.y, image.height, PatchedH) ]

\* images the function is given: the scanner's canvas at several sizes, a
\* canvas without a context, a tainted canvas, the video element
Images ==
  { [kind |-> k, ctx |-> c, tainted |-> t, width |-> w, height |-> h] :
      k \in {"canvas", "video"}, c \in BOOLEAN, t \in BOOLEAN,
      w \in {640, 320, 30}, h \in {480, 30} }

\* landmark sets: with landmark 151 at (x, y) / LandmarkGrid, or without it
LandmarkSets ==
  { [present |-> p, x |-> x, y |-> y] :
      p \in BOOLEAN, x \in 0 .. LandmarkGrid, y \in 0 .. LandmarkGrid }

\* before any call
NoGreenCall ==
  [ pc |-> "idle",
    image |-> [kind |-> "video", ctx |-> FALSE, tainted |-> FALSE,
               width |-> 0, height |-> 0],
    lm |-> [present |-> FALSE, x |-> 0, y |-> 0],
    outcome |-> "zero", startX |-> 0, startY |-> 0 ]

-----------------------------------------------------------------------------
(* The batch estimator: final heart rate *)

\* frames per second the batch estimator assumes
AssumedFps == 30
\* refractory debounce of the peak detector, in samples
RefractorySamples == 15
\* accepted band of the heart rate from the mean inter-beat interval
IbiMinBpm == 40
IbiMaxBpm == 200
\* accepted band of the heart rate from the peak count
CountMinBpm == 45
CountMaxBpm == 180
\* the fixed default
DefaultBpm == 72

\* lo <= r <= hi for a rational r
InBand(r, lo, hi) == lo * r[2] <= r[1] /\ r[1] <= hi * r[2]

\* 60 / (meanIntervalFrames / assumedFps), the mean over the intervals
IbiHeartRate(intervals) ==
  <<60 * AssumedFps * Len(intervals), SeqSum(intervals)>>

\* peaks per minute over the window: peaks / (samples / assumedFps) * 60
CountHeartRate(peaks, samples) == <<60 * AssumedFps * peaks, samples>>

\* the final heart rate of the mutant: the interval value is taken as it is
FinalHeartRateNoBand(intervals, peaks, samples) ==
  IF Len(intervals) > 0
  THEN [bpm |-> IbiHeartRate(intervals), source |-> "ibi"]
  ELSE IF InBand(CountHeartRate(peaks, samples), CountMinBpm, CountMaxBpm)
  THEN [bpm |-> CountHeartRate(peaks, samples), source |-> "count"]
  ELSE [bpm |-> <<DefaultBpm, 1>>, source |-> "default"]

\* the final heart rate: from the intervals if in [40, 200], else from the
\* peak count if in [45, 180], else 72
FinalHeartRate(intervals, peaks, samples) ==
  IF Len(intervals) > 0 /\ InBand(IbiHeartRate(intervals), IbiMinBpm, IbiMaxBpm)
  THEN [bpm |-> IbiHeartRate(intervals), source |-> "ibi"]
  ELSE IF InBand(CountHeartRate(peaks, samples), CountMinBpm, CountMaxBpm)
  THEN [bpm |-> CountHeartRate(peaks, samples), source |-> "count"]
  ELSE [bpm |-> <<DefaultBpm, 1>>, source |-> "default"]

\* the batch estimator before its window has a peak
BatchStart ==
  [ pc |-> "scanning", peaks |-> 0, intervals |-> <<>>, samples |-> 0,
    bpm |-> <<0, 1>>, source |-> "none" ]

\* distances between accepted peaks, in samples (none under the debounce)
PeakGaps == {RefractorySamples, 2 * RefractorySamples, 50, 60}
\* lengths of the accumulated window, in samples, up to the cap of 1050
WindowLengths == {40, 60, 200, 1050}

-----------------------------------------------------------------------------
(* healthAnalyzer.ts: Buffer *)

\* push(val): append, then shift the oldest out when over capacity
BufferPush(data, val, size) ==
  LET d == Append(data, val)
  IN  IF Len(d) > size THEN Tail(d) ELSE d


\* average(): 0 for an empty buffer, else sum / length, as a rational <<n, d>>
BufferAverage(data) ==
  IF Len(data) = 0 THEN <<0, 1>> ELSE <<SeqSum(data), Len(data)>>

RECURSIVE Gcd(_, _)
Gcd(a, b) == IF b = 0 THEN a ELSE Gcd(b, a % b)
Lcm(a, b) == (a * b) \div Gcd(a, b)

\* the recursions go by halves: a buffer of 50 is then 6 levels deep
RECURSIVE DenLcmRange(_, _, _)
DenLcmRange(rs, lo, hi) ==
  IF lo > hi THEN 1
  ELSE IF lo = hi THEN rs[lo][2]
  ELSE Lcm(DenLcmRange(rs, lo, (lo + hi) \div 2),
           DenLcmRange(rs, (lo + hi) \div 2 + 1, hi))

DenLcm(rs) == DenLcmRange(rs, 1, Len(rs))

RECURSIVE NumSumRange(_, _, _, _)
NumSumRange(rs, D, lo, hi) ==
  IF lo > hi THEN 0
  ELSE IF lo = hi THEN rs[lo][1] * (D \div rs[lo][2])
  ELSE NumSumRange(rs, D, lo, (lo + hi) \div 2)
         + NumSumRange(rs, D, (lo + hi) \div 2 + 1, hi)

NumSum(rs, D) == NumSumRange(rs, D, 1, Len(rs))

\* average() of the mutant: the sum is not divided by the length
RatAverageNoDivide(rs) ==
  IF Len(rs) = 0 THEN <<0, 1>>
  ELSE LET D == DenLcm(rs) IN <<NumSum(rs, D), D>>

\* average() of a buffer of rationals, as a rational
RatAverage(rs) ==
  IF Len(rs) = 0 THEN <<0, 1>>
  ELSE LET D == DenLcm(rs) IN <<NumSum(rs, D), D * Len(rs)>>

-----------------------------------------------------------------------------
(* healthAnalyzer.ts: Buffer.average in the arithmetic of the source *)

\* A number is <<m, e>>, the value m * 2^e, with m = 0 (and e = 0) or
\* 2^(MantissaBits-1) <= m < 2^MantissaBits.  The result of + and / is the
\* exact result rounded to nearest, ties to even.
RECURSIVE Pow2(_)
Pow2(k) == IF k = 0 THEN 1 ELSE 2 * Pow2(k - 1)

Up(e) == IF e >= 0 THEN Pow2(e) ELSE 1
Down(e) == IF e < 0 THEN Pow2(-e) ELSE 1

\* the exponent e with 2^(MantissaBits-1) <= (n / d) / 2^e < 2^MantissaBits
RECURSIVE FloatExp(_, _, _)
FloatExp(n, d, e) ==
  IF n * Down(e) >= d * Up(e) * Pow2(MantissaBits) THEN FloatExp(n, d, e + 1)
  ELSE IF n * Down(e) < d * Up(e) * Pow2(MantissaBits - 1) THEN FloatExp(n, d, e - 1)
  ELSE e

\* the number nearest to n / d (n >= 0, d > 0)
FloatRound(n, d) ==
  IF n = 0 THEN <<0, 0>>
  ELSE LET e  == FloatExp(n, d, 0)
           N  == n * Down(e)
           D  == d * Up(e)
           m  == N \div D
           r  == N % D
           m1 == IF 2 * r > D \/ (2 * r = D /\ m % 2 = 1) THEN m + 1 ELSE m
       IN  IF m1 = Pow2(MantissaBits) THEN <<Pow2(MantissaBits - 1), e + 1>>
           ELSE <<m1, e>>

\* a + b
FloatAdd(a, b) ==
  IF a[1] = 0 THEN b
  ELSE IF b[1] = 0 THEN a
  ELSE LET em == Min2(a[2], b[2])
           n  == a[1] * Pow2(a[2] - em) + b[1] * Pow2(b[2] - em)
       IN  FloatRound(n * Up(em), Down(em))

\* a / k for an integer k > 0
FloatDiv(a, k) == FloatRound(a[1] * Up(a[2]), k * Down(a[2]))

\* this.data.reduce((a, b) => a + b, 0)
RECURSIVE FloatSum(_)
FloatSum(data) ==
  IF data = <<>> THEN <<0, 0>>
  ELSE FloatAdd(FloatSum(SubSeq(data, 1, Len(data) - 1)), data[Len(data)])

\* average() of the mutant: divides by the capacity
FloatAverageBySize(data, size) ==
  IF Len(data) = 0 THEN <<0, 0>> ELSE FloatDiv(FloatSum(data), Max2(1, size))

\* average(): if (this.data.length === 0) return 0; return sum / length
FloatAverage(data, size) ==
  IF Len(data) = 0 THEN <<0, 0>> ELSE FloatDiv(FloatSum(data), Len(data))

\* push(val) of the mutant: nothing is evicted
BufferStepNoShift(b, val) ==
  LET d == Append(b.data, val)
  IN  [b EXCEPT !.data = d, !.pushed = Append(@, val),
                !.avg = FloatAverage(d, b.size)]

\* a Buffer of the given capacity after push(val), then average()
BufferStep(b, val) ==
  LET d == BufferPush(b.data, val, b.size)
  IN  [b EXCEPT !.data = d, !.pushed = Append(@, val),
                !.avg = FloatAverage(d, b.size)]

\* new Buffer(size)
NewBuffer(size) == [size |-> size, data |-> <<>>, pushed |-> <<>>, avg |-> <<0, 0>>]

\* the values pushed: the smallest significand, and two whose multiples need
\* more bits than a number has
FloatValues ==
  { <<Pow2(MantissaBits - 1), 0>>, <<Pow2(MantissaBits) - 2, 0>>,
    <<Pow2(MantissaBits) - 1, 0>> }

-----------------------------------------------------------------------------
(* healthAnalyzer.ts: estimateVitals *)

\* const isEyeOpen = ear > 0.25
IsEyeOpen(ear) == ear > EarThreshold

\* if (timeMs - healthAnalyzer.lastBlinkTime > 200)
BlinkDebounceOk(timeMs, lastBlink) == timeMs - lastBlink > BlinkDebounceMs

\* a blink is counted on this call
BlinkCounted(wasOpen, isOpen, timeMs, lastBlink) ==
  wasOpen /\ ~isOpen /\ BlinkDebounceOk(timeMs, lastBlink)

\* signalDiff = greenSignal - avgGreen, as a rational <<dn, dd>>
SignalDiff(green, buf) ==
  LET avg == BufferAverage(buf)
  IN  <<green * avg[2] - avg[1], avg[2]>>

\* const isLive = Math.abs(signalDiff) > 0.5
IsLive(diff) == 2 * Abs(diff[1]) > diff[2]

\* the heart rate of the mutant: neither the modulation nor the result is clamped
HeartRateUnclamped(diff, resp) ==
  LET modN == IF IsLive(diff) THEN diff[1] ELSE 0
  IN  FloorDiv(BaseHR * 5000 * diff[2] + 1000 * modN + resp * 5 * diff[2],
               5000 * diff[2])

\* rPPGModulation = isLive ? max(-10, min(10, signalDiff / 5)) : 0
\* heartRate = Math.floor(baseHR + rPPGModulation + respiratoryEffect)
\* heartRate = Math.max(55, Math.min(100, heartRate))
\* (modulation in units of 1 / (5 dd), resp in thousandths)
HeartRate(diff, resp) ==
  LET dd   == diff[2]
      modN == IF IsLive(diff) THEN Max2(-50 * dd, Min2(50 * dd, diff[1])) ELSE 0
      raw  == FloorDiv(BaseHR * 5000 * dd + 1000 * modN + resp * 5 * dd, 5000 * dd)
  IN  Max2(MinHR, Min2(MaxHR, raw))

\* hrStressFactor = max(0, (heartRate - 60) * 1.5)
\* stabilityStress = min(40, |signalDiff| * 2)
\* calculatedStress = min(95, max(10, hrStressFactor + stabilityStress))
\* as a rational over 2 dd
CalculatedStress(hr, diff) ==
  LET dd   == diff[2]
      hrSF == 3 * Max2(0, hr - 60) * dd
      stab == Min2(80 * dd, 4 * Abs(diff[1]))
  IN  <<Min2(190 * dd, Max2(20 * dd, hrSF + stab)), 2 * dd>>

\* calculateEAR: (v1 + v2) / (2 * h), as <<numerator, denominator>>; the
\* denominator is 0 for an eye of zero width (the quotient is then Infinity,
\* or NaN when the numerator is 0 too)
CalculateEAR(eye) == <<eye[1], 2 * eye[2]>>

\* ear > 0.25 for the quotient r: true of Infinity, false of NaN
EarAboveThreshold(r) ==
  IF r[2] = 0 THEN r[1] > 0 ELSE 100 * r[1] > EarThreshold * r[2]

\* the ear in hundredths, rounded down; for Infinity and NaN a number on the
\* same side of the threshold (the ear is only compared with the threshold)
EarHundredths(r) ==
  IF r[2] = 0 THEN (IF EarAboveThreshold(r) THEN 100 * EarThreshold ELSE 0)
  ELSE IF EarAboveThreshold(r) THEN Max2(EarThreshold + 1, (100 * r[1]) \div r[2])
  ELSE (100 * r[1]) \div r[2]

\* respiratoryRate = Math.floor(14 + (smoothStress / 20) + Math.sin(now / 5000))
\* (smooth a rational, sin5 in thousandths)
RespiratoryRate(smooth, sin5) ==
  FloorDiv(14 * 20000 * smooth[2] + 1000 * smooth[1] + 20 * sin5 * smooth[2],
           20000 * smooth[2])

\* estSys = 110 + (age - 25) * 0.3 + smoothStress * 0.4 + (heartRate - 70) * 0.5
\* as a numerator over 20 d, d the denominator of smooth
EstSys(age, smooth, hr) ==
  110 * 20 * smooth[2] + 6 * (age - 25) * smooth[2] + 8 * smooth[1]
    + 10 * (hr - 70) * smooth[2]

\* estDia of the mutant: the line of estSys, copied
EstDiaAsSys(age, smooth, hr) == EstSys(age, smooth, hr)

\* estDia = 70 + (age - 25) * 0.3 * 0.5 + smoothStress * 0.2
\*          + (heartRate - 70) * 0.5 * 0.5, over 20 d
EstDia(age, smooth, hr) ==
  70 * 20 * smooth[2] + 3 * (age - 25) * smooth[2] + 4 * smooth[1]
    + 5 * (hr - 70) * smooth[2]

\* the pressure of the mutant: floor(est + noise), not clamped
PressureUnclamped(est, noise, d, lo, hi) ==
  FloorDiv(est + noise * d, 20 * d)

\* Math.floor(Math.max(lo, Math.min(hi, est + noise))), est over 20 d and
\* noise in twentieths
Pressure(est, noise, d, lo, hi) ==
  FloorDiv(Max2(lo * 20 * d, Min2(hi * 20 * d, est + noise * d)), 20 * d)

\* One call of estimateVitals on the estimator state e: the new state and the
\* returned snapshot (heartRate, spo2, hrv, stress, blinkRate).
EstimateVitals(e, ear, timeMs, green, resp) ==
  LET isOpen  == IsEyeOpen(ear)
      counted == BlinkCounted(e.lastEyeOpen, isOpen, timeMs, e.lastBlinkTime)
      count1  == IF counted THEN e.blinkCount + 1 ELSE e.blinkCount
      blink1  == IF counted THEN timeMs ELSE e.lastBlinkTime
      hrBuf1  == IF green > 0 THEN BufferPush(e.hrBuffer, green, HrBufferSize)
                 ELSE e.hrBuffer
      diff    == SignalDiff(green, hrBuf1)
      hr      == HeartRate(diff, resp)
      stBuf1  == BufferPush(e.stressBuffer, CalculatedStress(hr, diff),
                            StressBufferSize)
      smooth  == RatAverage(stBuf1)
  IN  [ state |-> [ hrBuffer      |-> hrBuf1,
                    stressBuffer  |-> stBuf1,
                    lastEyeOpen   |-> isOpen,
                    blinkCount    |-> count1,
                    lastBlinkTime |-> blink1 ],
        stats |-> [ heartRate |-> hr,
                    spo2      |-> IF IsLive(diff) THEN 98 ELSE 97,
                    hrv       |-> FloorDiv(40 * diff[2] + 2 * Abs(diff[1]), diff[2]),
                    stress    |-> FloorDiv(smooth[1], smooth[2]),
                    blinkRate |-> count1 ] ]

\* the module-level object as first loaded
EstimatorInit ==
  [ hrBuffer |-> <<>>, stressBuffer |-> <<>>,
    lastEyeOpen |-> TRUE, blinkCount |-> 0, lastBlinkTime |-> 0 ]

\* const [vitals, setVitals] = useState({heartRate: 0, ...})
VitalsInit ==
  [ heartRate |-> 0, spo2 |-> 0, hrv |-> 0, stress |-> 0, blinkRate |-> 0 ]

-----------------------------------------------------------------------------
(* State *)

VARIABLES
  \* VitalScanner: React state, refs
  mounted,          \* the parent renders <VitalScanner> (showScanner)
  scanState,        \* 'INIT' | 'SCANNING' | 'COMPLETE'
  scanStateRef,     \* scanStateRef.current
  progress,         \* tenths of a percent
  progressRef,      \* progressRef.current
  cameraError,      \* cameraError !== null
  isCameraReady,
  isDemoMode,
  videoDevices,     \* videoDevices.length
  selectedDeviceId, \* 0 is '', d > 0 the d-th camera
  vitals,
  \* VitalScanner: passive effects
  dirty,            \* effects whose dependencies changed in a commit and that
                    \* have not been flushed yet
  demoInterval,     \* the simulation setInterval is active
  cameraCleanup,    \* the last run of the camera effect returned a cleanup
  runs,             \* the closures of the camera effect, one per run
  cur,              \* the latest run of the camera effect
  probePc,          \* getDevices: "gum", "enum", "done"
  probeStream,      \* the probe stream: "none", "live", "stopped"
  \* HospitalPatientDashboard (PatientHome)
  patientReports,   \* VITALS reports in the page's patient state
  dbReports,        \* VITALS reports in the stored patient record
  timers,           \* pending setTimeout(onComplete, 500), oldest first
  inflight,         \* handleScanComplete calls awaiting generateMedicalAnalysis
  delivered,        \* onComplete invocations so far
  \* observations
  userActed,        \* a user action happened since the state became COMPLETE
  everComplete,     \* the state has been COMPLETE
  \* healthAnalyzer (module-level object) and its caller's view
  est,
  clock,            \* Date.now() of the next frame
  calls,            \* estimateVitals invocations so far
  snapshot,         \* the last snapshot estimateVitals returned
  lastCall,         \* what the last call saw and found
  c10pos,           \* how far the calls so far follow BlinkScript; -1: not
  \* a Buffer on its own
  sb,               \* size, data, the values pushed so far, the last average()
  sessions,         \* times the scanner has been mounted
  \* the batch estimator
  batch,            \* peaks and intervals found, window length, the result
  \* extractGreenSignal called on its own
  green,            \* the last call: its image, its landmark, its outcome
  \* the rest of the snapshot of estimateVitals, and who called it
  full,             \* the patient's age, the age passed, respiratoryRate, bp
  \* PatientLogin and sessionStorage
  login,            \* the form's state, its pending handlers, activePatient
  \* the patient record: localStorage and the copies the two pages hold
  record

vars ==
  << mounted, scanState, scanStateRef, progress, progressRef, cameraError,
     isCameraReady, isDemoMode, videoDevices, selectedDeviceId, vitals, dirty,
     demoInterval, cameraCleanup, runs, cur, probePc, probeStream,
     patientReports, dbReports, timers, inflight, delivered, userActed,
     everComplete, est, clock, calls, snapshot, lastCall, c10pos, sb,
     sessions, batch, green, full, login, record >>

\* The whole state as one record, so that a handler is a function from state
\* to state and a handler that triggers a render composes with the effects.
World ==
  [ mounted |-> mounted, scanState |-> scanState, scanStateRef |-> scanStateRef,
    progress |-> progress, progressRef |-> progressRef,
    cameraError |-> cameraError, isCameraReady |-> isCameraReady,
    isDemoMode |-> isDemoMode, videoDevices |-> videoDevices,
    selectedDeviceId |-> selectedDeviceId, vitals |-> vitals, dirty |-> dirty,
    demoInterval |-> demoInterval, cameraCleanup |-> cameraCleanup,
    runs |-> runs, cur |-> cur, probePc |-> probePc, probeStream |-> probeStream,
    patientReports |-> patientReports, dbReports |-> dbReports,
    timers |-> timers, inflight |-> inflight, delivered |-> delivered,
    userActed |-> userActed, everComplete |-> everComplete, est |-> est,
    clock |-> clock, calls |-> calls, snapshot |-> snapshot,
    lastCall |-> lastCall, c10pos |-> c10pos, sb |-> sb,
    sessions |-> sessions, batch |-> batch, green |-> green,
    full |-> full, login |-> login, record |-> record ]

Install(w) ==
  /\ mounted' = w.mounted
  /\ scanState' = w.scanState
  /\ scanStateRef' = w.scanStateRef
  /\ progress' = w.progress
  /\ progressRef' = w.progressRef
  /\ cameraError' = w.cameraError
  /\ isCameraReady' = w.isCameraReady
  /\ isDemoMode' = w.isDemoMode
  /\ videoDevices' = w.videoDevices
  /\ selectedDeviceId' = w.selectedDeviceId
  /\ vitals' = w.vitals
  /\ dirty' = w.dirty
  /\ demoInterval' = w.demoInterval
  /\ cameraCleanup' = w.cameraCleanup
  /\ runs' = w.runs
  /\ cur' = w.cur
  /\ probePc' = w.probePc
  /\ probeStream' = w.probeStream
  /\ patientReports' = w.patientReports
  /\ dbReports' = w.dbReports
  /\ timers' = w.timers
  /\ inflight' = w.inflight
  /\ delivered' = w.delivered
  /\ userActed' = w.userActed
  /\ everComplete' = w.everComplete
  /\ est' = w.est
  /\ clock' = w.clock
  /\ calls' = w.calls
  /\ snapshot' = w.snapshot
  /\ lastCall' = w.lastCall
  /\ c10pos' = w.c10pos
  /\ sb' = w.sb
  /\ sessions' = w.sessions
  /\ batch' = w.batch
  /\ green' = w.green
  /\ full' = w.full
  /\ login' = w.login
  /\ record' = w.record

Runs == 1 .. MaxRuns

\* a run of the camera effect that has not happened yet
NoRun == [pc |-> "none", stream |-> "none", faceMesh |-> "none", cleaned |-> FALSE]

\* lastCall before any call
NoCall == [wasOpen |-> TRUE, isOpen |-> TRUE, timeMs |-> 0,
           prevBlinkTime |-> 0, prevCount |-> 0]

-----------------------------------------------------------------------------
(* The estimator as its callers see it *)

\* the eye states and timestamps of the blink example: <<isEyeOpen, timeMs>>
BlinkScript ==
  << <<TRUE, 0>>, <<TRUE, 50>>, <<FALSE, 100>>, <<FALSE, 150>>, <<TRUE, 400>> >>

\* healthAnalyzer.estimateVitals(landmarks, Date.now(), greenSignal) on frame f
CallEstimator(w, f) ==
  LET r      == EstimateVitals(w.est, f.ear, w.clock, f.green, f.resp)
      isOpen == IsEyeOpen(f.ear)
  IN  [w EXCEPT
        !.est = r.state,
        !.snapshot = r.stats,
        !.calls = @ + 1,
        !.clock = @ + f.dt,
        !.lastCall = [ wasOpen |-> w.est.lastEyeOpen, isOpen |-> isOpen,
                       timeMs |-> w.clock,
                       prevBlinkTime |-> w.est.lastBlinkTime,
                       prevCount |-> w.est.blinkCount ],
        !.c10pos = IF /\ w.c10pos = w.calls
                      /\ w.calls < Len(BlinkScript)
                      /\ BlinkScript[w.calls + 1] = <<isOpen, w.clock>>
                   THEN w.calls + 1 ELSE -1 ]

\* before any call; patientAge -1: no patient loaded
NoFullCall ==
  [ caller |-> "none", patientAge |-> -1, age |-> DefaultAge,
    respiratoryRate |-> 0, systolic |-> 0, diastolic |-> 0 ]

\* estimateVitals(landmarks, Date.now(), greenSignal, age) with the whole
\* snapshot: the fields of CallEstimator, and respiratoryRate and bp from the
\* smoothed stress, the heart rate, the age and this call's sine and noise
CallFull(w, caller, f, age, sin5, noise) ==
  LET a      == CallEstimator(w, f)
      smooth == RatAverage(a.est.stressBuffer)
      hr     == a.snapshot.heartRate
  IN  [a EXCEPT !.full =
        [ caller |-> caller, patientAge |-> w.full.patientAge, age |-> age,
          respiratoryRate |-> RespiratoryRate(smooth, sin5),
          systolic  |-> Pressure(EstSys(age, smooth, hr), noise, smooth[2],
                                 MinSystolic, MaxSystolic),
          diastolic |-> Pressure(EstDia(age, smooth, hr), noise, smooth[2],
                                 MinDiastolic, MaxDiastolic) ]]

-----------------------------------------------------------------------------
(* VitalScanner.tsx: passive effects *)

Effects == {"sync", "finish", "demo", "camera"}

\* the dependency array of each effect ("onComplete": the prop's identity,
\* new on every render of the parent)
Deps(e) ==
  CASE e = "sync"   -> {"scanState", "progress"}
    [] e = "finish" -> {"scanState", "onComplete", "vitals"}
    [] e = "demo"   -> {"isDemoMode", "scanState"}
    [] e = "camera" -> {"selectedDeviceId", "isDemoMode"}

\* scanStateRef.current = scanState; progressRef.current = progress
SyncRefsEffect(w) ==
  [w EXCEPT !.scanStateRef = w.scanState, !.progressRef = w.progress]

\* the Finish Scan effect of the mutant: no test of scanState
FinishScanEffectUnguarded(w) ==
  IF Len(w.timers) + w.delivered < MaxDeliveries
  THEN [w EXCEPT !.timers = Append(@, w.patientReports)]
  ELSE w

\* if (scanState === 'COMPLETE' && onComplete) setTimeout(() => onComplete(...), 500)
\* The timer keeps the onComplete of this render, whose closure holds the
\* page's patient of this render.
FinishScanEffect(w) ==
  IF w.scanState = "COMPLETE" /\ Len(w.timers) + w.delivered < MaxDeliveries
  THEN [w EXCEPT !.timers = Append(@, w.patientReports)]
  ELSE w

\* cleanup: clearInterval; then: if (!isDemoMode || scanState !== 'SCANNING') return;
\* setInterval(..., 50)
DemoEffect(w) ==
  [w EXCEPT !.demoInterval = w.isDemoMode /\ w.scanState = "SCANNING"]

\* the cleanup the camera effect returned: stop the tracks of activeStream if
\* it is set, close faceMesh if it is set, cancelAnimationFrame(animationFrameId)
CameraCleanup(w) ==
  IF ~w.cameraCleanup THEN w
  ELSE [w EXCEPT
         !.runs[w.cur] =
            [ pc       |-> IF @.pc = "raf" THEN "end" ELSE @.pc,
              stream   |-> IF @.stream = "live" THEN "stopped" ELSE @.stream,
              faceMesh |-> IF @.faceMesh = "open" THEN "closed" ELSE @.faceMesh,
              cleaned  |-> TRUE ],
         !.cameraCleanup = FALSE]

\* the camera effect: the previous cleanup, then if (isDemoMode) return;
\* startCamera() up to its first await: setCameraError(null), getUserMedia
CameraEffect(w) ==
  LET c == CameraCleanup(w)
  IN  IF c.isDemoMode THEN c
      ELSE [c EXCEPT !.cur = @ + 1,
                     !.runs[c.cur + 1] = [NoRun EXCEPT !.pc = "gum1"],
                     !.cameraCleanup = TRUE,
                     !.cameraError = FALSE]

\* Whether a run of effect e in state w would change anything: a run that
\* would not is not kept pending.
Acts(e, w) ==
  CASE e = "sync"   -> w.scanStateRef # w.scanState \/ w.progressRef # w.progress
    [] e = "finish" -> FinishScanEffect(w) # w
    [] e = "demo"   -> DemoEffect(w) # w
    [] e = "camera" -> TRUE

\* React flushes the passive effects of a commit together, in the order of
\* their declaration, each only if one of its dependencies changed.
Flush(w) ==
  LET a == IF "sync" \in w.dirty THEN SyncRefsEffect(w) ELSE w
      b == IF "finish" \in w.dirty THEN FinishScanEffect(a) ELSE a
      c == IF "demo" \in w.dirty THEN DemoEffect(b) ELSE b
      d == IF "camera" \in w.dirty THEN CameraEffect(c) ELSE c
  IN  [d EXCEPT !.dirty = {}]

\* A handler's state updates: React first flushes the effects still pending
\* from the previous commit, then renders with the updates; the effects whose
\* dependencies changed are pending after the commit.  Updates of an unmounted
\* component are dropped.  setVitals always stores a new object.  The
\* setCameraError(null) of a startCamera begun by that flush is queued after
\* the handler's own updates and wins over them.
Commit(w, upd) ==
  IF ~w.mounted THEN w
  ELSE LET f       == Flush(w)
           started == f.cur # w.cur
           changed == {k \in DOMAIN upd : k = "vitals" \/ upd[k] # f[k]}
           nowDone == "scanState" \in changed /\ upd.scanState = "COMPLETE"
           g       == [k \in DOMAIN f |->
                         IF k \in DOMAIN upd /\ ~(k = "cameraError" /\ started)
                         THEN upd[k] ELSE f[k]]
       IN  [g EXCEPT !.dirty = {e \in Effects :
                                  Deps(e) \cap changed # {} /\ Acts(e, g)},
                     !.userActed = IF nowDone THEN FALSE ELSE @,
                     !.everComplete = @ \/ nowDone]

\* The scanner leaves the tree: the pending effects are flushed, then every
\* effect's cleanup runs.  The onComplete timers are not cleared.
Unmount(w) ==
  IF ~w.mounted THEN w
  ELSE LET c == CameraCleanup(Flush(w))
       IN  [c EXCEPT !.mounted = FALSE, !.demoInterval = FALSE]

\* The camera cleanup when track.stop() throws: the exception leaves forEach
\* and the cleanup function; faceMesh.close() and cancelAnimationFrame are not
\* reached.  Nothing in the cleanup catches it.
CameraCleanupThrows(w) ==
  IF ~w.cameraCleanup THEN w
  ELSE [w EXCEPT !.runs[w.cur].cleaned = TRUE, !.cameraCleanup = FALSE]

\* The scanner leaves the tree and a track's stop() throws: React reports the
\* error and goes on with the other effects' cleanups.
UnmountThrows(w) ==
  IF ~w.mounted THEN w
  ELSE LET c == CameraCleanupThrows(Flush(w))
       IN  [c EXCEPT !.mounted = FALSE, !.demoInterval = FALSE]

\* a camera-effect run would be started by the next flush after this update
WouldRestart(w) == ("camera" \in w.dirty /\ ~w.isDemoMode)

\* room for one more run of the camera effect
RoomForRun(w) == w.cur + (IF WouldRestart(w) THEN 1 ELSE 0) < MaxRuns

-----------------------------------------------------------------------------
(* VitalScanner.tsx: startCamera, processVideo, onResults *)

\* the updater of the mutant: the value is capped, the state is never set
ProgressUpdateNeverComplete(w, step) ==
  [progress |-> Min2(ProgressFull, w.progress + step)]

\* setProgress(prev => { if (prev >= 100) { setScanState('COMPLETE'); return 100; }
\*                       return prev + step; })
ProgressUpdate(w, step) ==
  IF w.progress >= ProgressFull
  THEN [scanState |-> "COMPLETE", progress |-> ProgressFull]
  ELSE [progress |-> w.progress + step]

\* processVideo up to its await or its end:
\*   if (videoRef.current && faceMesh) await faceMesh.send(...)
\*   if (!activeStream?.active) return; animationFrameId = requestAnimationFrame(...)
\* videoRef.current is null once the scanner is unmounted.
ProcessVideo(w, i) ==
  IF w.mounted /\ w.runs[i].faceMesh # "none"
  THEN [w EXCEPT !.runs[i].pc = "send"]
  ELSE [w EXCEPT !.runs[i].pc = IF w.runs[i].stream = "live" THEN "raf" ELSE "end"]

\* startCamera after the video plays (or with no video element):
\* setIsCameraReady(true); setScanState('SCANNING'); scanStateRef.current =
\* 'SCANNING'; faceMesh = new FaceMesh(...); processVideo()
Ready(w, i) ==
  LET a == [w EXCEPT !.scanStateRef = "SCANNING", !.runs[i].faceMesh = "open"]
  IN  Commit(ProcessVideo(a, i), [isCameraReady |-> TRUE, scanState |-> "SCANNING"])

\* the catch of the mutant: the simulation is started on a camera failure
FailedStartsDemo(w, i) ==
  Commit([w EXCEPT !.runs[i].pc = "end"],
         [cameraError |-> TRUE, isCameraReady |-> FALSE, isDemoMode |-> TRUE,
          scanState |-> "SCANNING"])

\* the catch of the mutant: the error is logged and not shown
FailedSilent(w, i) ==
  Commit([w EXCEPT !.runs[i].pc = "end"], [isCameraReady |-> FALSE])

\* catch (err): setCameraError(err.message); setIsCameraReady(false)
Failed(w, i) ==
  Commit([w EXCEPT !.runs[i].pc = "end"],
         [cameraError |-> TRUE, isCameraReady |-> FALSE])

\* getUserMedia resolved: activeStream = stream; if (videoRef.current)
\* { srcObject = stream; await loadedmetadata; await play() }.  The one video
\* element gets a new source and a new onloadedmetadata: a closure that was
\* waiting on it is not resumed, or its play() is rejected by the new load.
Acquired(w, i) ==
  LET a == [w EXCEPT !.runs[i].stream = "live"]
  IN  IF w.mounted
      THEN [a EXCEPT !.runs = [k \in Runs |->
              IF k = i THEN [a.runs[k] EXCEPT !.pc = "video"]
              ELSE IF a.runs[k].pc = "video"
                   THEN [a.runs[k] EXCEPT !.pc = "aborted"]
                   ELSE a.runs[k]]]
      ELSE Ready(a, i)

\* onResults of the mutant: no test of multiFaceLandmarks.length
OnResultsAnyFaces(w, faces, f) ==
  IF ~w.mounted \/ w.scanStateRef # "SCANNING" THEN w
  ELSE LET a == CallEstimator(w, f)
       IN  Commit(a, [vitals |-> a.snapshot] @@ ProgressUpdate(a, CameraStep))

\* onResults: returns at once without the canvas and video elements; samples
\* only with a face and scanStateRef.current === 'SCANNING'
OnResults(w, faces, f) ==
  IF ~w.mounted \/ faces = 0 \/ w.scanStateRef # "SCANNING" THEN w
  ELSE LET a == CallEstimator(w, f)
       IN  Commit(a, [vitals |-> a.snapshot] @@ ProgressUpdate(a, CameraStep))

\* the vitals the simulation loop sets (stress kept, the random terms at
\* their middle)
DemoVitals(w, hr) ==
  [ heartRate |-> hr, spo2 |-> 98, hrv |-> 50, stress |-> w.vitals.stress,
    blinkRate |-> 17 ]

-----------------------------------------------------------------------------
(* Actions: getDevices *)

\* stream = await getUserMedia({video: true}); on rejection: catch, finally
ProbeGum(ok) ==
  /\ probePc = "gum"
  /\ Install([World EXCEPT !.probePc = IF ok THEN "enum" ELSE "done",
                           !.probeStream = IF ok THEN "live" ELSE "none"])

\* devices = await enumerateDevices(); setVideoDevices(cameras);
\* if (cameras.length > 0) setSelectedDeviceId(prev => prev || cameras[0].deviceId);
\* finally: stop the probe stream
ProbeEnum(n) ==
  /\ probePc = "enum"
  /\ RoomForRun(World)
  /\ LET w == [World EXCEPT !.probePc = "done", !.probeStream = "stopped"]
     IN  Install(Commit(w,
           IF n = 0 THEN [videoDevices |-> 0]
           ELSE [ videoDevices |-> n,
                  selectedDeviceId |->
                    IF selectedDeviceId # 0 THEN selectedDeviceId ELSE 1 ]))

(* Actions: the camera effect's closures *)

\* attempt 1: getUserMedia(constraints) resolves or rejects
Gum1(i, ok) ==
  /\ runs[i].pc = "gum1"
  /\ Install(IF ok THEN Acquired(World, i)
             ELSE [World EXCEPT !.runs[i].pc = "gum2"])

\* attempt 2: getUserMedia({video: true}) resolves or rejects
Gum2(i, ok) ==
  /\ runs[i].pc = "gum2"
  /\ Install(IF ok THEN Acquired(World, i) ELSE Failed(World, i))

\* await loadedmetadata; await videoRef.current.play(): throws when the
\* element is gone, may reject
VideoDone(i, ok) ==
  /\ \/ runs[i].pc = "video"
     \/ runs[i].pc = "aborted" /\ ~ok
  /\ Install(IF mounted /\ ok THEN Ready(World, i) ELSE Failed(World, i))

\* the animation frame fires: processVideo
AnimationFrame(i) ==
  /\ runs[i].pc = "raf"
  /\ Install(ProcessVideo(World, i))

\* faceMesh.send returns: the detector has called onResults (a closed
\* detector may not), then the loop goes on if the stream is active
SendReturns(i, faces, called, f) ==
  /\ runs[i].pc = "send"
  /\ called \/ runs[i].faceMesh = "closed"
  /\ LET w == IF called THEN OnResults(World, faces, f) ELSE World
     IN  Install([w EXCEPT !.runs[i].pc =
                    IF w.runs[i].stream = "live" THEN "raf" ELSE "end"])

(* Actions: React and timers *)

\* the scheduler flushes the pending passive effects
FlushEffects ==
  /\ dirty # {}
  /\ Install(Flush(World))

\* the 50 ms interval of the simulation loop
DemoTick(hr) ==
  /\ demoInterval
  /\ Install(Commit(World, [vitals |-> DemoVitals(World, hr)]
                             @@ ProgressUpdate(World, DemoStep)))

(* Actions: the user *)

\* the close button: onClose -> setShowScanner(false)
Close ==
  /\ mounted
  /\ Install([Unmount(World) EXCEPT !.userActed = TRUE])

\* the close button while the stream has a track whose stop() throws
CloseThrows ==
  /\ mounted
  /\ LET f == Flush(World)
     IN  f.cameraCleanup /\ f.runs[f.cur].stream = "live"
  /\ Install([UnmountThrows(World) EXCEPT !.userActed = TRUE])

\* the camera dropdown: setSelectedDeviceId(e.target.value)
SelectDevice(d) ==
  /\ mounted /\ videoDevices > 1 /\ ~isDemoMode
  /\ d \in 1 .. videoDevices /\ d # selectedDeviceId
  /\ RoomForRun(World)
  /\ Install([Commit(World, [selectedDeviceId |-> d]) EXCEPT !.userActed = TRUE])

\* 'Run Simulation', offered with the camera error
EnableDemoMode ==
  /\ mounted /\ cameraError
  /\ Install([Commit(World, [cameraError |-> FALSE, isDemoMode |-> TRUE,
                             scanState |-> "SCANNING"])
               EXCEPT !.userActed = TRUE])

(* Actions: the parent page *)

\* The page renders <VitalScanner> again: a new component instance with its
\* initial state, whose mount effects call getDevices() and startCamera().
\* The closures of the previous instance hold that instance's refs, which
\* are null: they reach neither the new instance nor the estimator, and are
\* left out.  The healthAnalyzer object, the page's state and the timers stay.
Mount(w) ==
  [w EXCEPT
     !.mounted = TRUE, !.scanState = "INIT", !.scanStateRef = "INIT",
     !.progress = 0, !.progressRef = 0, !.cameraError = FALSE,
     !.isCameraReady = FALSE, !.isDemoMode = FALSE, !.videoDevices = 0,
     !.selectedDeviceId = 0, !.vitals = VitalsInit, !.dirty = {},
     !.demoInterval = FALSE, !.cameraCleanup = TRUE,
     !.runs = [i \in Runs |-> IF i = 1 THEN [NoRun EXCEPT !.pc = "gum1"] ELSE NoRun],
     !.cur = 1, !.probePc = "gum", !.probeStream = "none",
     !.sessions = @ + 1]

\* the 'scan' button of the page: setShowScanner(true)
Open ==
  /\ ~mounted /\ sessions < MaxSessions
  /\ Install(Mount(World))

\* fetchLatestData every 2 s: setPatient(freshData); the page renders again
\* and hands the scanner a new handleScanComplete
ParentPoll ==
  LET w == Flush(World)
      p == [w EXCEPT !.patientReports = w.dbReports]
  IN  Install([p EXCEPT !.dirty = IF p.mounted /\ Acts("finish", p)
                                  THEN {"finish"} ELSE {}])

\* the 500 ms timer: onComplete(...) = handleScanComplete up to
\* await generateMedicalAnalysis
TimerFires ==
  /\ timers # <<>>
  /\ Install([World EXCEPT !.timers = Tail(@),
                           !.inflight = Append(@, Head(timers)),
                           !.delivered = @ + 1])

\* handleScanComplete after the analysis: reports of its closure's patient
\* plus the new one are saved; setPatient; setShowScanner(false)
ScanSaved(k) ==
  /\ k \in 1 .. Len(inflight)
  /\ LET base == inflight[k]
         w    == Unmount(World)
     IN  Install([w EXCEPT
           !.inflight = [j \in 1 .. Len(inflight) - 1 |->
                           IF j < k THEN inflight[j] ELSE inflight[j + 1]],
           !.dbReports = base + 1,
           !.patientReports = base + 1])

(* Actions: the estimator called directly *)

EstimatorCall(f) == Install(CallEstimator(World, f))

-----------------------------------------------------------------------------
(* PatientLogin.tsx, sms.ts: the patient login flow *)

\* Text is a sequence of one-character strings.

\* maxLength={6} of the code input; mockOtp has six digits
OtpLength == 6

\* the dashboard IDs of the stored patients
PatientIds == { <<"A">>, <<"B">> }

\* what the user can type into the Dashboard ID input
TypedIds == { <<"A">>, <<"a">>, <<" ", "B">>, <<"C">>, <<" ">> }

\* Math.floor(100000 + Math.random() * 900000).toString()
Codes == { [i \in 1 .. OtpLength |-> d] : d \in {"1", "2"} }

\* what the user can type into the code input, at most OtpLength characters
TypedOtps ==
  Codes \cup { <<" ">>, <<"1", "1", "1">>, <<" ", "1", "1", "1", "1", "1">> }

\* sessionStorage.getItem('activePatient') === null
NoPatient == <<>>

RECURSIVE TrimStart(_)
TrimStart(s) ==
  IF s # <<>> /\ Head(s) = " " THEN TrimStart(Tail(s)) ELSE s

RECURSIVE TrimEnd(_)
TrimEnd(s) ==
  IF s # <<>> /\ s[Len(s)] = " " THEN TrimEnd(SubSeq(s, 1, Len(s) - 1)) ELSE s

\* String.prototype.trim
Trim(s) == TrimEnd(TrimStart(s))

\* String.prototype.toUpperCase
ToUpperCase(s) ==
  [i \in 1 .. Len(s) |->
     IF s[i] = "a" THEN "A" ELSE IF s[i] = "b" THEN "B" ELSE s[i]]

\* db.getPatientById(id): the patient's id, NoPatient for undefined
GetPatientById(id) == IF id \in PatientIds THEN id ELSE NoPatient

\* sendOTP: the fetch succeeds ("sent"), the server reports a failure
\* ("rejected"), or fetch throws or is aborted ("unreachable"); it returns
\* true in the three cases
SendOTP(delivery) == delivery \in {"sent", "rejected", "unreachable"}

\* the comparison of the mutant: any code is accepted
OtpAlwaysMatches(otp, generatedOtp) == TRUE

\* otp.trim() === generatedOtp
OtpMatches(otp, generatedOtp) == Trim(otp) = generatedOtp

\* no handleIdSubmit in flight, no verification timer pending
NoIdCall == [pc |-> "idle", patientId |-> <<>>, patient |-> NoPatient,
             mockOtp |-> <<>>]
NoVerify == [pending |-> FALSE, otp |-> <<>>, generatedOtp |-> <<>>,
             patientId |-> <<>>]

\* useState('') ... useState<'ID' | 'OTP'>('ID'), nothing in sessionStorage;
\* issued[p] is the code most recently generated for p, entered the code
\* the session was authorised with, delivery the outcome of the last SMS
LoginInit ==
  [ shown |-> TRUE, patientId |-> <<>>, step |-> "ID", otp |-> <<>>,
    generatedOtp |-> <<>>, isLoading |-> FALSE,
    idCall |-> NoIdCall, verify |-> NoVerify,
    activePatient |-> NoPatient,
    issued |-> [p \in PatientIds |-> <<>>], entered |-> <<>>,
    delivery |-> "none", alerts |-> 0 ]

\* a state update of the form: dropped once the page has been left
SetForm(l, new) == IF l.shown THEN new ELSE l

\* onChange of the Dashboard ID input (disabled={isLoading})
SetPatientId(text) ==
  /\ login.shown /\ login.step = "ID" /\ ~login.isLoading
  /\ login.patientId # text
  /\ Install([World EXCEPT !.login.patientId = text])

\* onChange of the code input
SetOtp(text) ==
  /\ login.shown /\ login.step = "OTP"
  /\ login.otp # text
  /\ Install([World EXCEPT !.login.otp = text])

\* handleIdSubmit up to its first await (the input is required, the submit
\* button disabled={isLoading})
HandleIdSubmit ==
  /\ login.shown /\ login.step = "ID" /\ ~login.isLoading
  /\ login.patientId # <<>>
  /\ login.idCall.pc = "idle"
  /\ Install([World EXCEPT
       !.login.isLoading = TRUE,
       !.login.idCall = [NoIdCall EXCEPT !.pc = "delay",
                                         !.patientId = login.patientId]])

\* handleIdSubmit after the 800 ms delay, up to await sendOTP(...)
IdLookup(mockOtp) ==
  /\ login.idCall.pc = "delay"
  /\ LET patient ==
           GetPatientById(ToUpperCase(Trim(login.idCall.patientId)))
     IN  IF patient # NoPatient
         THEN Install([World EXCEPT
                !.login = [SetForm(login,
                             [login EXCEPT !.generatedOtp = mockOtp])
                           EXCEPT !.idCall.pc = "sms",
                                  !.idCall.patient = patient,
                                  !.idCall.mockOtp = mockOtp,
                                  !.issued[patient] = mockOtp]])
         ELSE Install([World EXCEPT
                !.login = [SetForm(login,
                             [login EXCEPT !.isLoading = FALSE])
                           EXCEPT !.idCall = NoIdCall,
                                  !.alerts = Min2(1, login.alerts + 1)]])

\* sendOTP resolves; setIsLoading(false); setStep('OTP')
SmsDone(delivery) ==
  /\ login.idCall.pc = "sms"
  /\ SendOTP(delivery)
  /\ Install([World EXCEPT
       !.login = [SetForm(login,
                    [login EXCEPT !.isLoading = FALSE, !.step = "OTP"])
                  EXCEPT !.idCall = NoIdCall, !.delivery = delivery]])

\* handleOtpVerify: setIsLoading(true); setTimeout(..., 1000)
HandleOtpVerify ==
  /\ login.shown /\ login.step = "OTP" /\ ~login.isLoading
  /\ login.otp # <<>>
  /\ ~login.verify.pending
  /\ Install([World EXCEPT
       !.login.isLoading = TRUE,
       !.login.verify = [pending |-> TRUE, otp |-> login.otp,
                         generatedOtp |-> login.generatedOtp,
                         patientId |-> login.patientId]])

\* the timer of handleOtpVerify; stored is whether sessionStorage.setItem
\* succeeds
VerifyTimer(stored) ==
  /\ login.verify.pending
  /\ LET v       == login.verify
         patient == GetPatientById(ToUpperCase(Trim(v.patientId)))
         l1      == [SetForm(login, [login EXCEPT !.isLoading = FALSE])
                     EXCEPT !.verify = NoVerify]
     IN  IF OtpMatches(v.otp, v.generatedOtp)
         THEN IF patient # NoPatient
              THEN Install([World EXCEPT
                     !.login = [l1 EXCEPT
                       !.activePatient = IF stored THEN patient ELSE NoPatient,
                       !.entered = IF stored THEN v.otp ELSE <<>>,
                       !.shown = FALSE]])
              ELSE Install([World EXCEPT !.login = l1])
         ELSE Install([World EXCEPT
                !.login = [l1 EXCEPT !.alerts = Min2(1, login.alerts + 1)]])

\* 'Re-enter Dashboard ID': setStep('ID')
ReEnterId ==
  /\ login.shown /\ login.step = "OTP"
  /\ Install([World EXCEPT !.login.step = "ID"])

\* 'Back to Home', 'Cancel Access Request': navigate('/')
LeaveLogin ==
  /\ login.shown
  /\ Install([World EXCEPT !.login.shown = FALSE])

-----------------------------------------------------------------------------
(* db.ts, Dashboard.tsx, HospitalPatientDashboard.tsx: the patient record *)

\* One patient. A copy of the record is what JSON.parse of the stored text,
\* or a spread of a page's state, gives: the reports, the messages and the
\* discharge flag. A report or a message is identified by the number of the
\* write that made it.
PatientRecord(reports, messages, isDischarged) ==
  [reports |-> reports, messages |-> messages, isDischarged |-> isDischarged]

\* { ...patient, reports: [...(patient.reports || []), newReport] }
WithReport(p, n) == [p EXCEPT !.reports = Append(p.reports, n)]

\* { ...patient, messages: [...(patient.messages || []), newMessage] }
WithMessage(p, n) == [p EXCEPT !.messages = Append(p.messages, n)]

\* db.savePatient: patients[existingIndex] = patient, then setItem
SavePatient(stored, p) == p

\* what is in a copy of the record
Items(p) ==
  {p.reports[i] : i \in 1 .. Len(p.reports)} \cup
  {p.messages[i] : i \in 1 .. Len(p.messages)}

\* The patient exists and has nothing yet; PatientHome, the hospital's
\* Dashboard and its patient page are open and have loaded the record.
\* stored: localStorage; home: PatientHome's patient; scan: the patient a
\* pending handleScanComplete closed over; patients, selectedPatient: the
\* Dashboard's state; detail: HospitalPatientDashboard's patient, the prop of
\* every ReportCard; saved: what db.savePatient has been given so far;
\* writes: the reports and messages made so far.
RecordInit ==
  LET empty == PatientRecord(<<>>, <<>>, FALSE)
  IN  [ stored |-> empty, home |-> empty,
        scan |-> [pending |-> FALSE, patient |-> empty],
        patients |-> empty,
        selectedPatient |-> [open |-> FALSE, patient |-> empty],
        detail |-> empty, saved |-> {}, writes |-> 0 ]

\* the write of a handler: db.savePatient(updated) for the new item n
Saved(r, updated, n) ==
  [r EXCEPT !.stored = SavePatient(r.stored, updated),
            !.saved = r.saved \cup {n},
            !.writes = n]

\* PatientHome.fetchLatestData, every 2000 ms: setPatient(freshData)
FetchLatestData ==
  /\ record.home # record.stored
  /\ Install([World EXCEPT !.record.home = record.stored])

\* PatientHome.handleSendMessage
PatientHandleSendMessage ==
  /\ record.writes < MaxWrites
  /\ LET n       == record.writes + 1
         updated == WithMessage(record.home, n)
     IN  Install([World EXCEPT
           !.record = [Saved(record, updated, n) EXCEPT !.home = updated]])

\* PatientHome.handleModuleSubmit (and the timer of the stability report)
HandleModuleSubmit ==
  /\ record.writes < MaxWrites
  /\ LET n       == record.writes + 1
         updated == WithReport(record.home, n)
     IN  Install([World EXCEPT
           !.record = [Saved(record, updated, n) EXCEPT !.home = updated]])

\* PatientHome.handleScanComplete up to await generateMedicalAnalysis(...):
\* the handler has closed over the patient of the render that passed it
ScanCompleteBegins ==
  /\ ~record.scan.pending
  /\ record.writes < MaxWrites
  /\ Install([World EXCEPT
       !.record.scan = [pending |-> TRUE, patient |-> record.home]])

\* PatientHome.handleScanComplete after the await
ScanCompleteSaves ==
  /\ record.scan.pending
  /\ record.writes < MaxWrites
  /\ LET n       == record.writes + 1
         updated == WithReport(record.scan.patient, n)
     IN  Install([World EXCEPT
           !.record = [Saved(record, updated, n) EXCEPT
                         !.home = updated,
                         !.scan = [pending |-> FALSE,
                                   patient |-> RecordInit.stored]]])

\* Dashboard mounts: db.getPatients() ... setPatients(...)
LoadPatients ==
  /\ record.patients # record.stored \/ record.selectedPatient.open
  /\ Install([World EXCEPT
       !.record.patients = record.stored,
       !.record.selectedPatient = RecordInit.selectedPatient])

\* Dashboard: onClick={() => setSelectedPatient(p)}
SelectPatient ==
  /\ ~record.selectedPatient.open
  /\ Install([World EXCEPT
       !.record.selectedPatient = [open |-> TRUE, patient |-> record.patients]])

\* Dashboard.handleSendMessage
HospitalHandleSendMessage ==
  /\ record.selectedPatient.open
  /\ record.writes < MaxWrites
  /\ LET n       == record.writes + 1
         updated == WithMessage(record.selectedPatient.patient, n)
     IN  Install([World EXCEPT
           !.record = [Saved(record, updated, n) EXCEPT
                         !.patients = updated,
                         !.selectedPatient.patient = updated]])

\* Dashboard.handleToggleDischarge(patient), patient an entry of patients
HandleToggleDischarge ==
  /\ Install([World EXCEPT
       !.record.stored =
          SavePatient(record.stored,
            [record.patients EXCEPT !.isDischarged = ~record.patients.isDischarged]),
       !.record.patients =
          [record.patients EXCEPT !.isDischarged = ~record.patients.isDischarged]])

\* HospitalPatientDashboard mounts: db.getPatientById(id) ... setPatient(p)
DetailLoadPatient ==
  /\ record.detail # record.stored
  /\ Install([World EXCEPT !.record.detail = record.stored])

\* ReportCard.sendReply: the page's patient is not updated
SendReply ==
  /\ record.detail.reports # <<>>
  /\ record.writes < MaxWrites
  /\ LET n       == record.writes + 1
         updated == WithMessage(record.detail, n)
     IN  Install([World EXCEPT !.record = Saved(record, updated, n)])

-----------------------------------------------------------------------------
(* Specifications *)

\* The scanner has just been mounted: its first commit is done and the mount
\* effects have run (getDevices() and startCamera() await getUserMedia).
InitFrom(times, sizes, e, n) ==
  /\ mounted = TRUE
  /\ scanState = "INIT" /\ scanStateRef = "INIT"
  /\ progress = 0 /\ progressRef = 0
  /\ cameraError = FALSE /\ isCameraReady = FALSE /\ isDemoMode = FALSE
  /\ videoDevices = 0 /\ selectedDeviceId = 0
  /\ vitals = VitalsInit
  /\ dirty = {} /\ demoInterval = FALSE /\ cameraCleanup = TRUE
  /\ runs = [i \in Runs |-> IF i = 1 THEN [NoRun EXCEPT !.pc = "gum1"] ELSE NoRun]
  /\ cur = 1
  /\ probePc = "gum" /\ probeStream = "none"
  /\ patientReports = 0 /\ dbReports = 0
  /\ timers = <<>> /\ inflight = <<>> /\ delivered = 0
  /\ userActed = FALSE /\ everComplete = FALSE
  /\ est = e
  /\ clock \in times
  /\ calls = n
  /\ snapshot = VitalsInit
  /\ lastCall = NoCall
  /\ c10pos = 0
  /\ sb \in {NewBuffer(c) : c \in sizes}
  /\ sessions = 1
  /\ batch = BatchStart
  /\ green = NoGreenCall
  /\ full = NoFullCall
  /\ login = LoginInit
  /\ record = RecordInit

\* the estimator as first loaded, no call made
InitAt(times, sizes) == InitFrom(times, sizes, EstimatorInit, 0)

\* the scanner is opened in a browser: Date.now() is far from 0
Init == InitAt({1000}, {HrBufferSize})

\* the estimator is driven from a test: timestamps may start at 0
InitEstimator == InitAt(StartTimes, {HrBufferSize})

Next ==
  \/ \E ok \in BOOLEAN : ProbeGum(ok)
  \/ \E n \in 0 .. MaxCameras : ProbeEnum(n)
  \/ \E i \in Runs, ok \in BOOLEAN : Gum1(i, ok)
  \/ \E i \in Runs, ok \in BOOLEAN : Gum2(i, ok)
  \/ \E i \in Runs, ok \in BOOLEAN : VideoDone(i, ok)
  \/ \E i \in Runs : AnimationFrame(i)
  \/ \E i \in Runs, faces \in {0, 1}, called \in BOOLEAN, f \in ScanFrames :
       SendReturns(i, faces, called, f)
  \/ FlushEffects
  \/ \E hr \in DemoHeartRates : DemoTick(hr)
  \/ Close
  \/ \E d \in 1 .. MaxCameras : SelectDevice(d)
  \/ EnableDemoMode
  \/ ParentPoll
  \/ TimerFires
  \/ \E k \in 1 .. MaxDeliveries : ScanSaved(k)

Spec == Init /\ [][Next]_vars

\* the estimator alone, heart rate: any green sample, any respiratory phase
NextHR ==
  \E g \in GreenValues, r \in RespValues :
    /\ calls < MaxHRCalls
    /\ EstimatorCall([ear |-> 40, green |-> g, resp |-> r, dt |-> 50])

SpecHR == InitEstimator /\ [][NextHR]_vars

\* the frames of the specification of the whole snapshot
VitalsFrames ==
  { [ear |-> EarHundredths(CalculateEAR(eye)), green |-> g, resp |-> r, dt |-> 50] :
      eye \in EyeShapes, g \in {0, 255}, r \in {-3000, 3000} }

\* the page has the record of the patient who is scanned
LoadPatient(a) ==
  /\ full.patientAge = -1 /\ calls = 0
  /\ Install([World EXCEPT !.full.patientAge = a])

\* estimateVitals called with an age
DirectCall(f, age, sin5, noise) ==
  /\ calls < MaxVitalsCalls
  /\ Install(CallFull(World, "direct", f, age, sin5, noise))

\* onResults of the scanner: healthAnalyzer.estimateVitals(landmarks,
\* Date.now(), greenSignal), no age passed
ScannerFrame(f, sin5, noise) ==
  /\ calls < MaxVitalsCalls
  /\ full.patientAge # -1
  /\ Install(CallFull(World, "scanner", f, DefaultAge, sin5, noise))

NextVitals ==
  \/ \E a \in Ages : LoadPatient(a)
  \/ \E f \in VitalsFrames, age \in AnyAges, s \in Sin5Values, n \in NoiseValues :
       DirectCall(f, age, s, n)
  \/ \E f \in VitalsFrames, s \in Sin5Values, n \in NoiseValues :
       ScannerFrame(f, s, n)

SpecVitals == Init /\ [][NextVitals]_vars

\* the estimator after n calls on frames whose pixel read failed (green 0,
\* eye open): nothing is pushed to hrBuffer, one value to stressBuffer per call
\* (heart rate 75, signalDiff 0: the value is 22.5 each time)
AfterFailedReads(n) ==
  [ EstimatorInit EXCEPT
      !.stressBuffer = [i \in 1 .. n |-> CalculatedStress(BaseHR, <<0, 1>>)] ]

\* calls made before the stress specification starts
StressPrefill == StressBufferSize - 1

\* the estimator alone, stress: the stress buffer is one below its capacity
InitStress ==
  InitFrom({1000}, {HrBufferSize},
           AfterFailedReads(StressPrefill), StressPrefill)

NextStress ==
  \E g \in GreenValues, r \in RespValues :
    /\ calls < StressPrefill + MaxStressCalls
    /\ EstimatorCall([ear |-> 40, green |-> g, resp |-> r, dt |-> 50])

SpecStress == InitStress /\ [][NextStress]_vars

\* the estimator alone, blinks: any eye state, any frame spacing
NextBlink ==
  \E e \in EarValues, d \in Deltas :
    /\ calls < MaxBlinkCalls
    /\ EstimatorCall([ear |-> e, green |-> 128, resp |-> 0, dt |-> d])

SpecBlink == InitEstimator /\ [][NextBlink]_vars

\* a Buffer alone: any capacity, any pushes, average() after each push
InitBuffer == InitAt({1000}, 0 .. MaxCapacity)

PushAndAverage(v) ==
  /\ Len(sb.pushed) < MaxPushes
  /\ Install([World EXCEPT !.sb = BufferStep(sb, v)])

NextBuffer == \E v \in FloatValues : PushAndAverage(v)

SpecBuffer == InitBuffer /\ [][NextBuffer]_vars

\* one scanner after another on the same page, the camera working: frames
\* with or without a face, eyes open or closed
NextSessions ==
  \/ \E i \in Runs : Gum1(i, TRUE)
  \/ \E i \in Runs : VideoDone(i, TRUE)
  \/ \E i \in Runs : AnimationFrame(i)
  \/ \E i \in Runs, faces \in {0, 1}, f \in SessionFrames :
       SendReturns(i, faces, TRUE, f)
  \/ FlushEffects
  \/ Close
  \/ Open

SpecSessions == Init /\ [][NextSessions]_vars

\* one call of extractGreenSignal
GreenCall(image, lm) ==
  /\ green.pc = "idle"
  /\ LET r == ExtractGreenSignal(image, lm)
     IN  Install([World EXCEPT !.green =
          [ pc |-> "done", image |-> image, lm |-> lm, outcome |-> r.outcome,
            startX |-> r.startX, startY |-> r.startY ]])

NextGreen == \E image \in Images, lm \in LandmarkSets : GreenCall(image, lm)

SpecGreen == Init /\ [][NextGreen]_vars

\* the peak detector accepts a peak, gap samples after the one before
BatchPeak(gap) ==
  /\ batch.pc = "scanning"
  /\ Len(batch.intervals) < MaxIntervals
  /\ Install([World EXCEPT
       !.batch.peaks = @ + 1,
       !.batch.intervals = IF batch.peaks = 0 THEN @ ELSE Append(@, gap)])

\* the window ends after n samples: the final heart rate is computed
BatchFinish(n) ==
  /\ batch.pc = "scanning"
  /\ n > SeqSum(batch.intervals)
  /\ LET r == FinalHeartRate(batch.intervals, batch.peaks, n)
     IN  Install([World EXCEPT
           !.batch.pc = "done", !.batch.samples = n,
           !.batch.bpm = r.bpm, !.batch.source = r.source])

NextBatch ==
  \/ \E gap \in PeakGaps : BatchPeak(gap)
  \/ \E n \in WindowLengths : BatchFinish(n)

SpecBatch == Init /\ [][NextBatch]_vars

\* One scan left to run: the camera is granted or refused, every frame has a
\* face, the user starts the simulation when it is offered and does nothing
\* else.
NextLive ==
  \/ \E i \in Runs, ok \in BOOLEAN : Gum1(i, ok)
  \/ \E i \in Runs, ok \in BOOLEAN : Gum2(i, ok)
  \/ \E i \in Runs : VideoDone(i, TRUE)
  \/ \E i \in Runs : AnimationFrame(i)
  \/ \E i \in Runs, f \in SessionFrames : SendReturns(i, 1, TRUE, f)
  \/ FlushEffects
  \/ \E hr \in DemoHeartRates : DemoTick(hr)
  \/ EnableDemoMode

\* What the return of faceMesh.send does to the loop of run i: the loop
\* leaves its await.  (Enabled exactly when SendReturns is; the fairness of
\* the detector is stated on it.)
FrameAnswered(i) ==
  /\ runs[i].pc = "send"
  /\ \E p \in {"raf", "end"} : runs' = [runs EXCEPT ![i].pc = p]

\* The browser runs every requested animation frame, the detector answers
\* every frame sent, the interval timer keeps ticking while it is set, and
\* React flushes the pending effects.
FairLive ==
  /\ \A i \in Runs : WF_vars(AnimationFrame(i))
  /\ \A i \in Runs : WF_runs(FrameAnswered(i))
  /\ WF_vars(FlushEffects)
  /\ WF_vars(\E hr \in DemoHeartRates : DemoTick(hr))

SpecLive == Init /\ [][NextLive]_vars /\ FairLive

\* the login page, from the moment it is shown
NextLogin ==
  \/ \E text \in TypedIds : SetPatientId(text)
  \/ \E text \in TypedOtps : SetOtp(text)
  \/ HandleIdSubmit
  \/ \E mockOtp \in Codes : IdLookup(mockOtp)
  \/ \E delivery \in {"sent", "rejected", "unreachable"} : SmsDone(delivery)
  \/ HandleOtpVerify
  \/ \E stored \in BOOLEAN : VerifyTimer(stored)
  \/ ReEnterId
  \/ LeaveLogin

SpecLogin == Init /\ [][NextLogin]_vars

\* the patient's page and the hospital's pages, open at the same time
NextRecord ==
  \/ FetchLatestData
  \/ PatientHandleSendMessage
  \/ HandleModuleSubmit
  \/ ScanCompleteBegins
  \/ ScanCompleteSaves
  \/ LoadPatients
  \/ SelectPatient
  \/ HospitalHandleSendMessage
  \/ HandleToggleDischarge
  \/ DetailLoadPatient
  \/ SendReply

SpecRecord == Init /\ [][NextRecord]_vars

\* one session of the camera whose tracks may throw when they are stopped
NextTeardown ==
  \/ \E i \in Runs : Gum1(i, TRUE)
  \/ \E i \in Runs : VideoDone(i, TRUE)
  \/ \E i \in Runs : AnimationFrame(i)
  \/ \E i \in Runs, faces \in {0, 1}, f \in SessionFrames :
       SendReturns(i, faces, TRUE, f)
  \/ FlushEffects
  \/ Close
  \/ CloseThrows

SpecTeardown == Init /\ [][NextTeardown]_vars

-----------------------------------------------------------------------------
(* Claims *)

\* a processVideo loop that will go on: a frame is with the detector or an
\* animation frame is scheduled, and the stream it tests is active
LoopLive(i) == runs[i].pc \in {"send", "raf"} /\ runs[i].stream = "live"

\* C1: after the teardown of a run of the camera effect (close, completion,
\* device switch, demo mode) the stream that run acquired is stopped, also
\* when it was acquired after the teardown; after the view is closed and
\* getDevices has finished, the probe stream is stopped.
C1_TracksStoppedAfterTeardown ==
  /\ \A i \in Runs : runs[i].cleaned => runs[i].stream # "live"
  /\ (~mounted /\ probePc = "done") => probeStream # "live"

\* C2: once the scan state is COMPLETE, no step moves it to SCANNING or INIT.
C2_CompleteIsTerminal ==
  [][scanState = "COMPLETE" => scanState' = "COMPLETE"]_vars

\* C3: while the scan state is COMPLETE no frame is sampled: estimateVitals
\* is not called, the estimator's buffers and progress do not change.
C3_NoSamplingOnceComplete ==
  [][scanState = "COMPLETE" =>
       (calls' = calls /\ est' = est /\ progress' = progress)]_vars

\* C4: the result of a scan is delivered to onComplete at most once, and at
\* most one VITALS report is stored.
C4_DeliveredOnce == delivered <= 1 /\ dbReports <= 1

C6_SingleLoop == mounted => Cardinality({i \in Runs : LoopLive(i)}) <= 1

\* C7: after the scan view is closed no processVideo loop is running.
C7_LoopCancelledAfterClose == ~mounted => \A i \in Runs : ~LoopLive(i)

\* C8: every snapshot estimateVitals returns has a heart rate in [55, 100].
C8_HeartRateInRange == calls > 0 => snapshot.heartRate \in MinHR .. MaxHR

\* C8 witness: a snapshot whose modulation is at its cap of 10 and whose
\* respiratory term is 3: 75 + 10 + 3.
C8_Witness == calls > 1 /\ snapshot.heartRate = 88

\* C9: once a blink has been counted, a call raises blinkCount by exactly 1
\* when it sees an open -> closed transition at least 200 ms (200 included)
\* after the last counted blink time, and leaves it unchanged otherwise.
C9_BlinkCountRule ==
  (calls > 0 /\ lastCall.prevCount > 0) =>
    est.blinkCount = lastCall.prevCount +
      (IF /\ lastCall.wasOpen /\ ~lastCall.isOpen
          /\ lastCall.timeMs - lastCall.prevBlinkTime >= BlinkDebounceMs
       THEN 1 ELSE 0)

\* C10: after the five calls of the blink example on a fresh estimator,
\* exactly one blink is recorded, counted at t = 100.
C10_BlinkExample ==
  c10pos = Len(BlinkScript) => (est.blinkCount = 1 /\ est.lastBlinkTime = 100)

\* the last k elements of a sequence
LastN(q, k) == SubSeq(q, Len(q) - k + 1, Len(q))

\* C11: after each push a Buffer of capacity C holds exactly
\* min(pushCount, C) elements, the most recent pushes in push order.
C11_BufferHoldsMostRecent ==
  LET k == Min2(Len(sb.pushed), sb.size)
  IN  Len(sb.data) = k /\ sb.data = LastN(sb.pushed, k)

\* C11 witness: a buffer at capacity that has evicted at least one value, the
\* evicted one differing from what it holds now.
C11_Witness ==
  /\ sb.size > 1 /\ Len(sb.pushed) > sb.size
  /\ sb.pushed[1] # sb.data[1]

\* the buffer holds only copies of v
AllEqual(data, v) == \A j \in 1 .. Len(data) : data[j] = v

\* C12 (as claimed): average() of an empty buffer is exactly 0 and average()
\* of a buffer of N >= 1 copies of v is exactly v.
C12_AverageOfCopiesExact ==
  /\ sb.data = <<>> => sb.avg = <<0, 0>>
  /\ \A v \in FloatValues : (sb.data # <<>> /\ AllEqual(sb.data, v)) => sb.avg = v

\* C12 (amended): average() of an empty buffer is exactly 0; average() of N
\* copies of v is exactly v whenever the running sum of the copies is exact.
C12_AverageOfCopies ==
  /\ sb.data = <<>> => sb.avg = <<0, 0>>
  /\ \A v \in FloatValues :
       ( /\ sb.data # <<>> /\ AllEqual(sb.data, v)
         /\ LET t == FloatSum(sb.data)
            IN  t[2] >= 0 /\ t[1] * Pow2(t[2]) = Len(sb.data) * v[1] )
       => sb.avg = v

\* C12 witness: three copies of one value whose sum is exact, averaged.
C12_Witness ==
  /\ Len(sb.data) = 3 /\ AllEqual(sb.data, sb.data[1])
  /\ sb.avg = sb.data[1]

\* C13: a detector result with zero faces leaves the scan unchanged:
\* estimateVitals is not called, the estimator's buffers and blink state, the
\* displayed vitals and progress stay as they are.
C13_NoFaceNoSample ==
  [][(\E i \in Runs, f \in ScanFrames : SendReturns(i, 0, TRUE, f)) =>
       (calls' = calls /\ est' = est /\ vitals' = vitals /\ progress' = progress)]_vars

\* C13 witness: the scanner is scanning, a frame has come back from the open
\* detector, and nothing has been sampled.
C13_Witness ==
  /\ mounted /\ scanState = "SCANNING" /\ scanStateRef = "SCANNING"
  /\ \E i \in Runs : runs[i].pc = "raf" /\ runs[i].faceMesh = "open"
  /\ calls = 0 /\ progress = 0 /\ vitals = VitalsInit

\* C14: the simulation interval runs only in demo mode; demo mode is entered
\* only by the user's 'Run Simulation' on a camera error; a camera failure
\* outside demo mode leaves the scan state as it is and starts no simulation.
C14_NoSilentSimulation ==
  [][ /\ demoInterval' => isDemoMode'
      /\ (isDemoMode' /\ ~isDemoMode) =>
           (mounted /\ cameraError /\ userActed' /\ scanState' = "SCANNING")
      /\ (cameraError' /\ ~cameraError /\ ~isDemoMode) =>
           (scanState' = scanState /\ ~isDemoMode' /\ ~demoInterval'
            /\ vitals' = vitals /\ progress' = progress) ]_vars

\* C14 witness: the camera has failed, the error is shown, and no simulation
\* runs: the scan is still in INIT with no vitals.
C14_Witness ==
  /\ mounted /\ cameraError /\ ~isCameraReady /\ ~isDemoMode /\ ~demoInterval
  /\ scanState = "INIT" /\ vitals = VitalsInit /\ progress = 0

\* C15: when a scan session starts after an earlier one, the estimator is as
\* first loaded: blink count 0, signal and stress buffers empty.
C15_FreshEstimatorPerSession ==
  [][(~mounted /\ mounted') => est' = EstimatorInit]_vars

\* C16: progress is within [0, 100] in every state and does not decrease
\* from one update to the next until the session is COMPLETE.
C16_ProgressBounded ==
  [][ /\ progress' \in 0 .. ProgressFull
      /\ scanState' # "COMPLETE" => progress' >= progress ]_vars

\* C18: the session is COMPLETE as soon as progress is 100: progress is never
\* 100 in state SCANNING, and no frame is sampled while progress is 100.
C18_CompleteWhenFull ==
  [][ /\ progress' >= ProgressFull => scanState' # "SCANNING"
      /\ progress >= ProgressFull => calls' = calls ]_vars

\* C19: a teardown always completes, also when stopping a track throws: the
\* detector the run had opened is closed and its pending animation frame is
\* cancelled.
C19_TeardownCompletes ==
  [][ \A i \in Runs :
        (~runs[i].cleaned /\ runs'[i].cleaned)
          => (runs'[i].faceMesh # "open" /\ runs'[i].pc # "raf") ]_vars

\* C20 as stated: a getUserMedia failure ends the acquisition (no further
\* getUserMedia call of that startCamera) and is surfaced: cameraError set,
\* camera not ready.
C20_NoRetryAfterFailure ==
  [][ \A i \in Runs :
        (mounted /\ runs[i].pc = "gum1" /\ runs'[i].pc # "gum1"
           /\ runs'[i].stream # "live")
          => (runs'[i].pc = "end" /\ cameraError' /\ ~isCameraReady') ]_vars

\* C20 amended: when both attempts of a startCamera have failed (the
\* preferred constraints, then the generic fallback), the failure is surfaced
\* (cameraError set, camera not ready) unless the camera effect has started
\* again in the meantime, and that startCamera makes no further call.
C20_FailureSurfaced ==
  [][ \A i \in Runs :
        /\ (mounted /\ runs[i].pc = "gum2" /\ runs'[i].pc = "end" /\ cur' = cur)
             => (cameraError' /\ ~isCameraReady')
        /\ runs[i].pc = "end" => runs'[i].pc = "end" ]_vars

C20_Witness ==
  /\ mounted /\ ~isDemoMode
  /\ cameraError /\ ~isCameraReady
  /\ runs[cur].pc = "end" /\ runs[cur].stream = "none"

\* C17: the final heart rate of the batch estimator is the value from the
\* mean inter-beat interval when that is within [40, 200], otherwise the
\* value from the peak count when that is within [45, 180], otherwise 72.
C17_BatchHeartRate ==
  batch.pc = "done" =>
    LET k     == Len(batch.intervals)
        total == SeqSum(batch.intervals)
        n     == batch.bpm[1]
        d     == batch.bpm[2]
        ibiOk == /\ k > 0
                 /\ 40 * total <= 1800 * k
                 /\ 1800 * k <= 200 * total
        cntOk == /\ 45 * batch.samples <= 1800 * batch.peaks
                 /\ 1800 * batch.peaks <= 180 * batch.samples
    IN  IF ibiOk THEN n * total = 1800 * k * d
        ELSE IF cntOk THEN n * batch.samples = 1800 * batch.peaks * d
        ELSE n = 72 * d

\* the interval value is out of its band and the count value is returned
C17_Witness ==
  /\ batch.pc = "done" /\ batch.source = "count"
  /\ Len(batch.intervals) > 0

\* C21: the 20 x 20 patch that extractGreenSignal samples lies inside the
\* frame on both axes (startX, startY are kept times LandmarkGrid).
C21_PatchInsideFrame ==
  (green.pc = "done" /\ green.outcome = "mean") =>
    /\ 0 <= green.startX
    /\ green.startX + PatchedW * LandmarkGrid <= green.image.width * LandmarkGrid
    /\ 0 <= green.startY
    /\ green.startY + PatchedH * LandmarkGrid <= green.image.height * LandmarkGrid

\* C22: extractGreenSignal never raises; for a source that is not a canvas,
\* a canvas without a 2D context, a failing pixel read or a landmark set
\* without the forehead landmark it returns 0.
C22_GreenNeverRaises ==
  green.pc = "done" =>
    /\ green.outcome # "raise"
    /\ (\/ green.image.kind # "canvas" \/ ~green.image.ctx
        \/ green.image.tainted \/ ~green.lm.present) => green.outcome = "zero"

\* the sum of two rationals, in lowest terms
RatAdd(a, b) ==
  LET n == a[1] * b[2] + b[1] * a[2]
      d == a[2] * b[2]
      g == Gcd(Abs(n), d)
  IN  <<n \div g, d \div g>>

\* the sum of the rationals rs[lo] .. rs[hi], by halves
RECURSIVE RatSumRange(_, _, _)
RatSumRange(rs, lo, hi) ==
  IF lo > hi THEN <<0, 1>>
  ELSE IF lo = hi THEN rs[lo]
  ELSE LET mid == (lo + hi) \div 2
       IN  RatAdd(RatSumRange(rs, lo, mid), RatSumRange(rs, mid + 1, hi))

\* C24: each call pushes one stress value within [10, 95] to the stress
\* buffer, which keeps the at most 50 most recent ones, and returns the floor
\* of their mean; the returned stress is within [10, 95].
C24_StressSmoothed ==
  [][ calls' > calls =>
        LET old == est.stressBuffer
            new == est'.stressBuffer
            k   == Len(new)
            S   == RatSumRange(new, 1, k)
            st  == snapshot'.stress
        IN  /\ k = Min2(Len(old) + 1, 50)
            /\ SubSeq(new, 1, k - 1) = LastN(old, k - 1)
            /\ 10 * new[k][2] <= new[k][1] /\ new[k][1] <= 95 * new[k][2]
            /\ st * k * S[2] <= S[1] /\ S[1] < (st + 1) * k * S[2]
            /\ st \in 10 .. 95 ]_vars

\* C24 witness: the buffer is full and has evicted values, and the returned
\* stress is neither the value just pushed nor the value of the older ones.
C24_Witness ==
  /\ calls > StressBufferSize
  /\ Len(est.stressBuffer) = StressBufferSize
  /\ LET last == est.stressBuffer[StressBufferSize]
         head == est.stressBuffer[1]
     IN  /\ snapshot.stress # FloorDiv(last[1], last[2])
         /\ snapshot.stress # FloorDiv(head[1], head[2])

\* hrv = Math.floor(40 + Math.random() * 20) of the simulation loop: the
\* range of hrv values the scanner itself generates
SimulatedHrv == 40 .. 59

\* C23: every field of the snapshot estimateVitals returns lies inside a
\* clamped range: the heart rate, spo2, the stress, the respiratory rate, the
\* blood pressure and the hrv.
C23_SnapshotInRange ==
  full.caller # "none" =>
    /\ snapshot.heartRate \in MinHR .. MaxHR
    /\ snapshot.spo2 \in 97 .. 98
    /\ snapshot.stress \in 10 .. 95
    /\ full.respiratoryRate \in 12 .. 20
    /\ full.systolic \in MinSystolic .. MaxSystolic
    /\ full.diastolic \in MinDiastolic .. MaxDiastolic
    /\ snapshot.hrv \in SimulatedHrv

\* C25: for every age, stress and heart rate the systolic value is within
\* [90, 180] and the diastolic value within [60, 120].
C25_PressureInRange ==
  full.caller # "none" =>
    /\ full.systolic \in 90 .. 180
    /\ full.diastolic \in 60 .. 120

\* C25 witness: an age that takes both values to their upper clamp.
C25_Witness ==
  /\ full.caller = "direct"
  /\ full.systolic = 180 /\ full.diastolic = 120 /\ full.age = 500

\* C26: every call the scanner makes passes the age of the patient.
C26_PatientAgePassed ==
  full.caller = "scanner" => full.age = full.patientAge

\* C29: for ages 0 .. 120 the systolic value is greater than the diastolic.
C29_SystolicAboveDiastolic ==
  (full.caller # "none" /\ full.age \in 0 .. 120) =>
    full.systolic > full.diastolic

\* C29 witness: the youngest patient, neither value at a clamp, the two
\* values as close as they get.
C29_Witness ==
  /\ full.caller = "direct" /\ full.age = 0
  /\ full.systolic > MinSystolic /\ full.diastolic > MinDiastolic
  /\ full.systolic - full.diastolic <= 40

\* C27: a scan whose camera became ready reaches COMPLETE, a scan in demo
\* mode reaches COMPLETE, and after COMPLETE the demo timer is cleared and
\* stays cleared.
C27_ScanCompletes ==
  /\ isCameraReady ~> scanState = "COMPLETE"
  /\ isDemoMode ~> scanState = "COMPLETE"
  /\ (isDemoMode /\ scanState = "COMPLETE") ~> [](~demoInterval)

\* C27 witness: a demo scan that has run to COMPLETE and whose timer is
\* cleared.
C27_Witness ==
  /\ isDemoMode /\ scanState = "COMPLETE" /\ progress = ProgressFull
  /\ ~demoInterval /\ dirty = {}

\* C30: a patient session exists only for a stored patient whose most
\* recently generated code is the code that was entered; an empty code, the
\* code generated for another ID and a failed SMS delivery do not open one.
C30_SessionOnlyOnMatch ==
  login.activePatient # NoPatient =>
    /\ login.activePatient \in PatientIds
    /\ login.entered \in Codes
    /\ login.entered = login.issued[login.activePatient]

\* C30 witness: after a code for A, 'Re-enter Dashboard ID' and a different
\* code for B whose SMS was not delivered, a session for B.
C30_Witness ==
  /\ login.activePatient = <<"B">>
  /\ login.issued[<<"A">>] \in Codes
  /\ login.issued[<<"A">>] # login.issued[<<"B">>]
  /\ login.delivery = "unreachable"
  /\ login.alerts > 0

\* C28: every report and every message that was saved to the patient record
\* is in the stored record, whatever the order of the patient's and the
\* hospital's writes.
C28_NothingLost ==
  record.saved \subseteq Items(record.stored)

=============================================================================
